---- MODULE Spec2Model ----
(***************************************************************************)
(* A model of gemseo-fmu's BaseFMUDiscipline: a discipline wrapping one    *)
(* FMU slave (FMPy), executed either from the current time to the final    *)
(* time or one time step at a time; and of its TimeSteppingSystem, which   *)
(* co-simulates two such disciplines and a static one, one macro time step *)
(* after the other.                                                        *)
(*                                                                         *)
(* Times are exact multiples of one tick (an integer); the slave is an     *)
(* integrator  x(t+h) = x(t) + u*h  with one input u and one output x, so  *)
(* that its state depends on its whole history since the last reset.       *)
(***************************************************************************)
EXTENDS Integers, Sequences, FiniteSets, TLC

\* ------------------------------------------------------------------ bounds
MaxTime == 3
MaxStep == 2

InitialTimes == 0..1
FinalTimes == 0..MaxTime
TimeSteps == 0..MaxStep
\* The values set_next_execution is called with: a short simulation time and
\* one that overshoots every final time; a time step.
SimulationTimes == {1, MaxTime + 1}
NextTimeSteps == {1}
InputValues == {1, 2}
\* The largest slave state a further execution is explored from.
MaxX == 2 * MaxTime
\* The lowest current time a further execution is explored from.
MinTime == 0 - 1

VARIABLES
    initial_time,                \* __initial_time
    final_time,                  \* __final_time
    do_step,                     \* __do_step
    default_simulation_settings, \* __default_simulation_settings
    simulation_settings,         \* __simulation_settings
    current_time,                \* __current_time
    executed,                    \* __executed
    time,                        \* _time, <<>> standing for None
    local_data,                  \* the output trajectory stored by store_local_data
    model,                       \* __model, the FMU slave
    alive,                       \* FALSE once __del__ has run
    model_type,                  \* __model_type
    delete_model_instance_directory, \* __delete_model_instance_directory
    log,                         \* the warnings logged by the constructor
    calls,                       \* the slave calls issued by the last operation
    last,                        \* what the last operation was and how it ended
    \* The time-stepping system.
    system,                      \* the arguments of TimeSteppingSystem.__init__
    time_manager,                \* __time_manager
    fmu_disciplines,             \* __fmu_disciplines
    mda_data,                    \* __mda.io.data
    io_data,                     \* io.data
    cache,                       \* cache, <<>> when it is empty or there is none
    mda_cache,                   \* __mda.cache, <<>> when it is empty
    sys_last,                    \* what the last operation of the system was
    \* The time durations.
    duration                     \* a TimeDuration and what was made of it

\* The variables of the time-stepping system.
sys_vars == <<system, time_manager, fmu_disciplines, mda_data, io_data, cache,
              mda_cache, sys_last>>

\* The variables of the time durations.
util_vars == <<duration>>

vars == <<initial_time, final_time, do_step, default_simulation_settings,
          simulation_settings, current_time, executed, time, local_data,
          model, alive, model_type, delete_model_instance_directory, log,
          calls, last>>

\* All the variables.
all_vars == <<vars, sys_vars, util_vars>>

Min(a, b) == IF a <= b THEN a ELSE b

\* ------------------------------------------------------------ the FMU slave
\* The start values of the slave's state and input.
StartState == 0
StartInput == 1

instantiate_fmu == [state |-> "Instantiated", t |-> 0, x |-> StartState, u |-> StartInput]

reset(m) == [state |-> "Instantiated", t |-> 0, x |-> StartState, u |-> StartInput]

setupExperiment(m, startTime) == [m EXCEPT !.t = startTime]

enterInitializationMode(m) == [m EXCEPT !.state = "InitializationMode"]

exitInitializationMode(m) ==
    [m EXCEPT !.state = IF @ = "InitializationMode" THEN "Initialized" ELSE @]

setReal(m, value) == [m EXCEPT !.u = value]

getReal(m) == m.x

doStep(m, currentCommunicationPoint, communicationStepSize) ==
    [m EXCEPT !.state = "Stepping",
              !.t = currentCommunicationPoint + communicationStepSize,
              !.x = @ + m.u * communicationStepSize]

terminate(m) == [m EXCEPT !.state = "Terminated"]

freeInstance(m) == [m EXCEPT !.state = "Freed"]

\* A step is legal on an initialized slave only.
CanStep(m) == m.state \in {"Initialized", "Stepping"}

\* What a slave may do with a step: an initialized slave takes it; the
\* behaviour of a slave stepped before its initialization is not defined by
\* the FMI standard: it may take the step or report an error.
StepOutcomes(m) == IF CanStep(m) THEN {"ok"} ELSE {"ok", "error"}

\* A call of the slave: the function, the state the slave is in, an argument.
Call(op, m, arg) == <<op, m.state, arg>>

\* -------------------------------------------------------- the discipline
NoSettings == [k \in {} |-> 0]

\* __set_time and the _final_time setter: the default simulation settings.
set_time(initial, final, time_step, dostep, restart) ==
    IF dostep
    THEN ("restart" :> restart) @@ ("time_step" :> time_step)
    ELSE ("restart" :> restart) @@ ("time_step" :> time_step)
         @@ ("simulation_time" :> (final - initial))

\* The discipline as one record, with the outcome of the running operation.
Self ==
    [initial_time |-> initial_time, final_time |-> final_time, do_step |-> do_step,
     default_simulation_settings |-> default_simulation_settings,
     simulation_settings |-> simulation_settings,
     current_time |-> current_time, executed |-> executed, time |-> time,
     local_data |-> local_data, model |-> model,
     delete_model_instance_directory |-> delete_model_instance_directory,
     names_to_time_functions |-> <<>>, local_input |-> <<>>,
     calls |-> <<>>, status |-> "ok"]

\* The setter refusing the final time itself.
set_current_time_ge(self, t) ==
    IF t >= self.final_time
    THEN [self EXCEPT !.status = "CurrentExceedsFinal"]
    ELSE [self EXCEPT !.current_time = t]

\* The _current_time setter.
set_current_time(self, t) ==
    IF t > self.final_time
    THEN [self EXCEPT !.status = "CurrentExceedsFinal"]
    ELSE [self EXCEPT !.current_time = t]

\* set_next_execution; an argument is {} for None and {v} for the value v.
set_next_execution(self, restart, simulation_time, time_step) ==
    LET s0 == self.default_simulation_settings
        s1 == IF time_step # {}
              THEN ("time_step" :> (CHOOSE v \in time_step : TRUE)) @@ s0
              ELSE s0
        s2 == IF restart # {}
              THEN ("restart" :> (CHOOSE v \in restart : TRUE)) @@ s1
              ELSE s1
        s3 == IF simulation_time # {}
              THEN ("simulation_time" :> (CHOOSE v \in simulation_time : TRUE)) @@ s2
              ELSE s2
    IN [self EXCEPT !.simulation_settings = s3]

\* ---------------------------------------------------------- time series
\* TimeSeries(time, observable): the times are strictly increasing and there
\* are as many observables as times.
TimeSeries(times, observables) == [time |-> times, observable |-> observables]

\* compute taking the observable of the last of the times before t.
compute_before(ts, t) ==
    IF t < ts.time[1]
    THEN {}
    ELSE {ts.observable[IF t = ts.time[1] THEN 1
                        ELSE Cardinality({i \in 1..Len(ts.time) : ts.time[i] < t})]}

\* TimeSeries.compute(t): {} when it raises a ValueError, t being before the
\* first time; otherwise {v}, v being the observable of the last of the times
\* up to t.
compute(ts, t) ==
    IF t < ts.time[1]
    THEN {}
    ELSE {ts.observable[Cardinality({i \in 1..Len(ts.time) : ts.time[i] <= t})]}

\* __set_model_inputs for the input u of the slave, without the time
\* functions: the input value is always the one that is set.
set_model_inputs_value_only(self, input, t, store) ==
    [self EXCEPT !.model = setReal(@, input),
                 !.calls = Append(@, Call("setReal", self.model, input))]

\* __set_model_inputs setting the first observable of the time function when
\* the function raises a ValueError.
set_model_inputs_first_observable(self, input, t, store) ==
    IF self.names_to_time_functions # <<>>
    THEN LET value == compute(self.names_to_time_functions[1], t)
         IN IF value = {}
            THEN LET v == self.names_to_time_functions[1].observable[1]
                 IN [self EXCEPT !.model = setReal(@, v),
                                 !.calls = Append(@, Call("setReal", self.model, v))]
            ELSE LET v == CHOOSE w \in value : TRUE
                 IN [self EXCEPT !.model = setReal(@, v),
                                 !.calls = Append(@, Call("setReal", self.model, v)),
                                 !.local_input = IF store THEN <<v>> ELSE @]
    ELSE [self EXCEPT !.model = setReal(@, input),
                      !.calls = Append(@, Call("setReal", self.model, input))]

\* __set_model_inputs for the input u of the slave: the value of its time
\* function at t when it has one, unless the function raises a ValueError;
\* the input value otherwise.
set_model_inputs(self, input, t, store) ==
    IF self.names_to_time_functions # <<>>
    THEN LET value == compute(self.names_to_time_functions[1], t)
         IN IF value = {}
            THEN self
            ELSE LET v == CHOOSE w \in value : TRUE
                 IN [self EXCEPT !.model = setReal(@, v),
                                 !.calls = Append(@, Call("setReal", self.model, v)),
                                 !.local_input = IF store THEN <<v>> ELSE @]
    ELSE [self EXCEPT !.model = setReal(@, input),
                      !.calls = Append(@, Call("setReal", self.model, input))]

\* __do_when_step_finished writing the value into the time series as well,
\* as its first observable.
do_when_step_finished_in_place(self, t) ==
    IF self.names_to_time_functions = <<>>
    THEN self
    ELSE LET value == compute(self.names_to_time_functions[1], t)
         IN IF value = {}
            THEN self
            ELSE LET v == CHOOSE w \in value : TRUE
                 IN [self EXCEPT !.model = setReal(@, v),
                                 !.calls = Append(@, Call("setReal", self.model, v)),
                                 !.local_input = Append(@, v),
                                 !.names_to_time_functions[1].observable[1] = v]

\* __do_when_step_finished: the time function of the input, if any, is
\* evaluated at t and its value set, unless it raises a ValueError.
do_when_step_finished(self, t) ==
    IF self.names_to_time_functions = <<>>
    THEN self
    ELSE LET value == compute(self.names_to_time_functions[1], t)
         IN IF value = {}
            THEN self
            ELSE LET v == CHOOSE w \in value : TRUE
                 IN [self EXCEPT !.model = setReal(@, v),
                                 !.calls = Append(@, Call("setReal", self.model, v)),
                                 !.local_input = Append(@, v)]

\* The n steps of fmpy.simulate_fmu from the time t, each followed by one
\* sample of the output and by the step_finished callback.
RECURSIVE simulate_fmu(_, _, _, _)
simulate_fmu(self, t, output_interval, n) ==
    IF n = 0
    THEN self
    ELSE CHOOSE r \in
           {simulate_fmu(do_when_step_finished(s1, t + output_interval),
                         t + output_interval, output_interval, n - 1) :
            s1 \in {[self EXCEPT
                       !.model = doStep(@, t, output_interval),
                       !.calls = Append(@, Call("doStep", self.model, t)),
                       !.time = Append(@, t + output_interval),
                       !.local_data =
                           Append(@, getReal(doStep(self.model, t, output_interval)))]}} :
           TRUE

\* __run_one_step, were the current time advanced before the step is done.
run_one_step_advancing(self, input, outcome) ==
    LET time_step == self.simulation_settings["time_step"]
        final == self.current_time + time_step
        s0 == set_model_inputs(self, input, final, TRUE)
        m1 == s0.model
        c1 == Append(s0.calls, Call("doStep", m1, self.current_time))
    IN IF outcome = "error"
       THEN [s0 EXCEPT !.calls = c1, !.status = "SlaveError",
                       !.current_time = final]
       ELSE LET m2 == doStep(m1, self.current_time, time_step)
                s1 == [s0 EXCEPT !.model = m2, !.calls = c1, !.time = <<final>>]
                s2 == set_current_time(s1, final)
            IN IF s2.status # "ok"
               THEN s2
               ELSE [s2 EXCEPT !.local_data = <<getReal(m2)>>,
                               !.calls = @ \o <<Call("getReal", m2, 0)>>]

\* __run_one_step
run_one_step(self, input, outcome) ==
    LET time_step == self.simulation_settings["time_step"]
        final == self.current_time + time_step
        s0 == set_model_inputs(self, input, final, TRUE)
        m1 == s0.model
        c1 == Append(s0.calls, Call("doStep", m1, self.current_time))
    IN IF outcome = "error"
       THEN [s0 EXCEPT !.calls = c1, !.status = "SlaveError"]
       ELSE LET m2 == doStep(m1, self.current_time, time_step)
                s1 == [s0 EXCEPT !.model = m2, !.calls = c1, !.time = <<final>>]
                s2 == set_current_time(s1, final)
            IN IF s2.status # "ok"
               THEN s2
               ELSE [s2 EXCEPT !.local_data = <<getReal(m2)>>,
                               !.calls = @ \o <<Call("getReal", m2, 0)>>]

\* fmpy.simulate_fmu with initialize=False and terminate=False: one sample at
\* start_time, then one step and one sample per output interval.
NbSteps(start_time, stop_time, output_interval) ==
    IF stop_time > start_time THEN (stop_time - start_time) \div output_interval ELSE 0

\* The output interval when the time step is 0 (FMPy chooses it).
DefaultOutputInterval == 1

\* __run_to_final_time without the clamp of the stop time.
run_to_final_time_no_clamp(self, input, outcome) ==
    LET time_step == self.simulation_settings["time_step"]
        start_time == self.current_time
        stop_time == start_time + self.simulation_settings["simulation_time"]
        s0 == set_model_inputs(self, input, self.current_time, FALSE)
        output_interval == IF start_time = stop_time THEN 1
                           ELSE IF time_step # 0 THEN time_step
                           ELSE DefaultOutputInterval
        n == NbSteps(start_time, stop_time, output_interval)
    IN IF n > 0 /\ outcome = "error"
       THEN [s0 EXCEPT !.calls = Append(@, Call("doStep", s0.model, start_time)),
                       !.status = "SlaveError"]
       ELSE CHOOSE s2 \in
              {set_current_time(s1, stop_time) :
               s1 \in {simulate_fmu([s0 EXCEPT !.time = <<start_time>>,
                                               !.local_data = <<getReal(s0.model)>>],
                                    start_time, output_interval, n)}} : TRUE

\* __run_to_final_time
run_to_final_time(self, input, outcome) ==
    LET time_step == self.simulation_settings["time_step"]
        start_time == self.current_time
        stop0 == start_time + self.simulation_settings["simulation_time"]
        stop_time == IF stop0 > self.final_time THEN self.final_time ELSE stop0
        s0 == set_model_inputs(self, input, self.current_time, FALSE)
        output_interval == IF start_time = stop_time THEN 1
                           ELSE IF time_step # 0 THEN time_step
                           ELSE DefaultOutputInterval
        n == NbSteps(start_time, stop_time, output_interval)
    IN IF n > 0 /\ outcome = "error"
       THEN [s0 EXCEPT !.calls = Append(@, Call("doStep", s0.model, start_time)),
                       !.status = "SlaveError"]
       ELSE CHOOSE s2 \in
              {set_current_time(s1, stop_time) :
               s1 \in {simulate_fmu([s0 EXCEPT !.time = <<start_time>>,
                                               !.local_data = <<getReal(s0.model)>>],
                                    start_time, output_interval, n)}} : TRUE

\* The restart decided by the restart setting alone.
MustRestart_setting_only(self, settings) == settings["restart"]

\* Whether _run resets and re-initializes the slave.
MustRestart(self, settings) ==
    settings["restart"] \/ self.current_time = self.initial_time

\* The reset branch of _run without the reset of the slave.
restart_model_no_reset(self) ==
    LET m1 == self.model
        m2 == setupExperiment(m1, self.initial_time)
        m3 == enterInitializationMode(m2)
        m4 == [m3 EXCEPT !.state = "Initialized"]
    IN [self EXCEPT !.current_time = self.initial_time,
                    !.model = m4,
                    !.calls = @ \o <<Call("reset", self.model, 0),
                                     Call("setupExperiment", m1, self.initial_time),
                                     Call("enterInitializationMode", m2, 0),
                                     Call("exitInitializationMode", m3, 0)>>]

\* The reset branch of _run.
restart_model(self) ==
    LET m1 == reset(self.model)
        m2 == setupExperiment(m1, self.initial_time)
        m3 == enterInitializationMode(m2)
        m4 == exitInitializationMode(m3)
    IN [self EXCEPT !.current_time = self.initial_time,
                    !.model = m4,
                    !.calls = @ \o <<Call("reset", self.model, 0),
                                     Call("setupExperiment", m1, self.initial_time),
                                     Call("enterInitializationMode", m2, 0),
                                     Call("exitInitializationMode", m3, 0)>>]

\* The check refusing an execution beyond the final time only.
AtFinalTime_beyond(self) ==
    self.initial_time < self.current_time /\ self.current_time > self.final_time

\* The check of _run that refuses an execution at final time.
AtFinalTime(self) ==
    self.initial_time < self.current_time /\ self.current_time = self.final_time

\* What _run does once the simulation has returned.
end_run(self) == [self EXCEPT !.simulation_settings = NoSettings]

\* _run checking the final time before the restart.
run_check_first(self, input, outcome) ==
    LET settings == IF DOMAIN self.simulation_settings = {}
                    THEN self.default_simulation_settings
                    ELSE self.simulation_settings
        s0 == [self EXCEPT !.simulation_settings = settings]
    IN IF AtFinalTime(s0)
       THEN [s0 EXCEPT !.status = "AlreadyAtFinalTime"]
       ELSE LET s1 == IF MustRestart(s0, settings) THEN restart_model(s0) ELSE s0
                s2 == IF s1.do_step
                      THEN run_one_step(s1, input, outcome)
                      ELSE run_to_final_time(s1, input, outcome)
            IN IF s2.status = "ok" THEN end_run(s2) ELSE s2

\* _run
run(self, input, outcome) ==
    LET settings == IF DOMAIN self.simulation_settings = {}
                    THEN self.default_simulation_settings
                    ELSE self.simulation_settings
        s0 == [self EXCEPT !.simulation_settings = settings]
        s1 == IF MustRestart(s0, settings) THEN restart_model(s0) ELSE s0
    IN IF AtFinalTime(s1)
       THEN [s1 EXCEPT !.status = "AlreadyAtFinalTime"]
       ELSE LET s2 == IF s1.do_step
                      THEN run_one_step(s1, input, outcome)
                      ELSE run_to_final_time(s1, input, outcome)
            IN IF s2.status = "ok" THEN end_run(s2) ELSE s2

\* execute
execute(self, input, outcome) ==
    run([self EXCEPT !.executed = TRUE, !.names_to_time_functions = <<>>,
                     !.local_input = <<input>>],
        input, outcome)

\* execute, for an input u given as a TimeSeries: its compute method is the
\* time function of u, and its first observable the value of u.
execute_time_series(self, ts, outcome) ==
    run([self EXCEPT !.executed = TRUE, !.names_to_time_functions = <<ts>>,
                     !.local_input = <<ts.observable[1]>>],
        ts.observable[1], outcome)

\* __setstate__: every field but the slave is restored; the slave is
\* instantiated anew.
setstate(self) == [self EXCEPT !.model = instantiate_fmu]

\* __del__ deleting the directory before it frees the slave.
del_rmtree_first(self) ==
    LET m1 == IF self.executed THEN terminate(self.model) ELSE self.model
    IN [self EXCEPT !.model = freeInstance(m1),
                    !.calls = (IF self.executed
                               THEN <<Call("terminate", self.model, 0)>>
                               ELSE <<>>)
                              \o (IF self.delete_model_instance_directory
                                  THEN <<Call("rmtree", m1, 0)>>
                                  ELSE <<>>)
                              \o <<Call("freeInstance", m1, 0)>>]

\* __del__
del(self) ==
    LET m1 == IF self.executed THEN terminate(self.model) ELSE self.model
    IN [self EXCEPT !.model = freeInstance(m1),
                    !.calls = (IF self.executed
                               THEN <<Call("terminate", self.model, 0),
                                      Call("freeInstance", m1, 0)>>
                               ELSE <<Call("freeInstance", m1, 0)>>)
                              \o (IF self.delete_model_instance_directory
                                  THEN <<Call("rmtree", freeInstance(m1), 0)>>
                                  ELSE <<>>)]

\* The outcomes the slave may give to the steps of an execution.
Outcomes(self) ==
    LET settings == IF DOMAIN self.simulation_settings = {}
                    THEN self.default_simulation_settings
                    ELSE self.simulation_settings
    IN IF MustRestart(self, settings) THEN {"ok"} ELSE StepOutcomes(self.model)

\* ------------------------------------------------------------- the actions
\* The fields of the discipline after an operation that left it as s.
Apply(s) ==
    /\ simulation_settings' = s.simulation_settings
    /\ current_time' = s.current_time
    /\ executed' = s.executed
    /\ time' = s.time
    /\ local_data' = s.local_data
    /\ model' = s.model
    /\ calls' = s.calls
    /\ UNCHANGED <<initial_time, final_time, do_step, default_simulation_settings,
                   model_type, delete_model_instance_directory, log>>

\* The settings an execution uses.
EffectiveSettings ==
    IF DOMAIN simulation_settings = {} THEN default_simulation_settings
    ELSE simulation_settings

\* The record of an operation other than execute; in it, after_set tells
\* whether set_next_execution was called since the last execution.
Other(op) ==
    [op |-> op, status |-> "ok", used |-> NoSettings, input |-> 0, pre_cur |-> 0,
     after_set |-> FALSE, repeat |-> FALSE, n |-> 0 - 1]

\* The longest run of executions since construction that is counted.
MaxExec == MaxTime + 1

\* No time-stepping system is built: a discipline is used alone.
NoSystem ==
    /\ system = <<>>
    /\ time_manager = <<>>
    /\ fmu_disciplines = <<>>
    /\ mda_data = <<>>
    /\ io_data = <<>>
    /\ cache = <<>>
    /\ mda_cache = <<>>
    /\ sys_last = <<>>

\* No time duration is made.
NoDuration == duration = <<>>

\* The warning of __set_fmu_model.
CoSimulationRequired ==
    "The FMUDiscipline requires a co-simulation model when do_step is True."

\* __set_fmu_model keeping the FMI type that is asked for.
set_fmu_model_as_asked(dostep, use_co_simulation) ==
    [model_type |-> IF use_co_simulation THEN "CoSimulation" ELSE "ModelExchange",
     log |-> IF dostep /\ ~use_co_simulation THEN {CoSimulationRequired} ELSE {}]

\* __set_fmu_model: the FMI type of the slave and the warnings logged.
set_fmu_model(dostep, use_co_simulation) ==
    LET model_type0 == IF use_co_simulation THEN "CoSimulation" ELSE "ModelExchange"
    IN IF dostep /\ ~use_co_simulation
       THEN [model_type |-> "CoSimulation", log |-> {CoSimulationRequired}]
       ELSE [model_type |-> model_type0, log |-> {}]

\* BaseFMUDiscipline.__init__(file_path, initial_time=initial, final_time=final,
\* time_step=time_step, restart=restart, do_step=dostep,
\* use_co_simulation=use_co_simulation,
\* delete_model_instance_directory=delete_directory)
init(initial, final, time_step, dostep, restart, use_co_simulation, delete_directory) ==
        /\ initial_time = initial
        /\ final_time = final
        /\ do_step = dostep
        /\ default_simulation_settings = set_time(initial, final, time_step, dostep, restart)
        /\ simulation_settings = NoSettings
        /\ current_time = initial
        /\ executed = FALSE
        /\ time = <<>>
        /\ local_data = <<>>
        /\ model = instantiate_fmu
        /\ alive = TRUE
        /\ model_type = set_fmu_model(dostep, use_co_simulation).model_type
        /\ delete_model_instance_directory = delete_directory
        /\ log = set_fmu_model(dostep, use_co_simulation).log
        /\ calls = <<Call("instantiate", [state |-> "Uninstantiated"], 0)>>
        /\ last = [Other("init") EXCEPT !.n = 0]
                    @@ [use_co_simulation |-> use_co_simulation]
        /\ NoSystem
        /\ NoDuration

\* BaseFMUDiscipline.__init__ with the default FMI type and the default
\* deletion of the directory of the FMU instance.
Init ==
    \E initial \in InitialTimes, final \in FinalTimes, time_step \in TimeSteps,
       dostep \in BOOLEAN, restart \in BOOLEAN :
        init(initial, final, time_step, dostep, restart, TRUE, TRUE)

\* execute(input_data)
Execute ==
    /\ alive
    /\ model.x <= MaxX
    /\ current_time >= MinTime
    /\ \E input \in InputValues, outcome \in Outcomes(Self) :
          LET s == execute(Self, input, outcome)
          IN /\ Apply(s)
             /\ last' = [op |-> "execute", status |-> s.status,
                         used |-> EffectiveSettings, input |-> input,
                         pre_cur |-> current_time,
                         after_set |-> (last.op # "execute" /\ last.after_set),
                         repeat |-> (/\ last.op = "execute"
                                     /\ last.used = EffectiveSettings
                                     /\ last.input = input),
                         n |-> IF last.n < 0 THEN last.n ELSE Min(last.n + 1, MaxExec + 1)]
    /\ UNCHANGED alive
    /\ UNCHANGED <<sys_vars, util_vars>>

\* set_next_execution(restart, simulation_time, time_step)
SetNextExecution ==
    /\ alive
    /\ \E restart \in {{}, {TRUE}, {FALSE}},
          simulation_time \in {{}} \cup {{v} : v \in SimulationTimes},
          time_step \in {{}} \cup {{v} : v \in NextTimeSteps} :
          Apply(set_next_execution(Self, restart, simulation_time, time_step))
    /\ last' = [Other("set_next_execution") EXCEPT !.after_set = TRUE]
    /\ UNCHANGED alive
    /\ UNCHANGED <<sys_vars, util_vars>>

\* to_pickle, then from_pickle: the execution goes on with the restored
\* discipline.
Unpickle ==
    /\ alive
    /\ Apply([setstate(Self) EXCEPT !.calls = <<Call("instantiate", [state |-> "Uninstantiated"], 0)>>])
    /\ last' = [Other("unpickle") EXCEPT
                   !.after_set = (last.op # "execute" /\ last.after_set)]
    /\ UNCHANGED alive
    /\ UNCHANGED <<sys_vars, util_vars>>

\* __del__
Delete ==
    /\ alive
    /\ Apply(del(Self))
    /\ alive' = FALSE
    /\ last' = Other("del")
    /\ UNCHANGED <<sys_vars, util_vars>>

Next == Execute \/ SetNextExecution \/ Unpickle \/ Delete

\* BaseFMUDiscipline.__init__ with any FMI type, deleting the directory of
\* the FMU instance or not, for a simulation from 0 with a time step.
OptionsInit ==
    \E final \in 1..MaxStep, time_step \in NextTimeSteps,
       dostep \in BOOLEAN, restart \in BOOLEAN,
       use_co_simulation \in BOOLEAN, delete_directory \in BOOLEAN :
        init(0, final, time_step, dostep, restart, use_co_simulation, delete_directory)

OptionsSpec == OptionsInit /\ [][Next]_all_vars

\* The time series the input u is given as.
TimeSeriesSet == {TimeSeries(<<0, 2>>, <<0, 2>>),
                  TimeSeries(<<1, 2>>, <<2, 1>>),
                  TimeSeries(<<0, 1, MaxTime>>, <<1, 0, 2>>)}

\* The causality of the variable u of the FMU model.
Causalities == {"input", "parameter"}

\* execute({"u": TimeSeries(...)})
ExecuteTimeSeries ==
    /\ alive
    /\ model.x <= MaxX
    /\ current_time >= MinTime
    /\ \E ts \in TimeSeriesSet, causality \in Causalities, outcome \in Outcomes(Self) :
          \E s \in {execute_time_series(Self, ts, outcome)} :
             /\ Apply(s)
             /\ last' = [op |-> "execute", status |-> s.status,
                         used |-> EffectiveSettings, input |-> ts.observable[1],
                         pre_cur |-> current_time,
                         after_set |-> (last.op # "execute" /\ last.after_set),
                         repeat |-> FALSE,
                         n |-> IF last.n < 0 THEN last.n ELSE Min(last.n + 1, MaxExec + 1),
                         time_series |-> ts, causality |-> causality,
                         pre_u |-> model.u,
                         names_to_time_functions |-> s.names_to_time_functions,
                         local_input |-> s.local_input]
    /\ UNCHANGED alive
    /\ UNCHANGED <<sys_vars, util_vars>>

\* A discipline executed with time series.
TimeSeriesNext == ExecuteTimeSeries \/ SetNextExecution

TimeSeriesSpec == Init /\ [][TimeSeriesNext]_all_vars

Spec == Init /\ [][Next]_all_vars

\* ------------------------------------------------------------- the claims
IsExecute == last.op = "execute"

\* The calls of the slave named op among the calls c.
CallsOf(c, op) == {i \in 1..Len(c) : c[i][1] = op}

InitCalls == {"reset", "setupExperiment", "enterInitializationMode",
              "exitInitializationMode"}

\* C1: with restart false and final_time > initial_time, an execution asked
\* when the current time is the final time fails with AlreadyAtFinalTime, step
\* by step or not, and calls the slave for no input and no step.
C1_AlreadyAtFinalTime ==
    (/\ IsExecute
     /\ ~last.used["restart"]
     /\ final_time > initial_time
     /\ last.pre_cur = final_time)
    => (/\ last.status = "AlreadyAtFinalTime"
        /\ calls = <<>>
        /\ current_time = final_time)

C1_Witness ==
    /\ IsExecute
    /\ do_step
    /\ ~last.used["restart"]
    /\ final_time > initial_time
    /\ last.pre_cur = final_time
    /\ last.status = "AlreadyAtFinalTime"

C1_WitnessToFinalTime ==
    /\ IsExecute
    /\ ~do_step
    /\ ~last.used["restart"]
    /\ final_time > initial_time
    /\ last.pre_cur = final_time
    /\ last.status = "AlreadyAtFinalTime"

\* The first four calls of c reset and initialize the slave at initial_time.
ResetFirst(c) ==
    /\ Len(c) >= 4
    /\ c[1][1] = "reset"
    /\ c[2] = <<"setupExperiment", "Instantiated", initial_time>>
    /\ c[3] = <<"enterInitializationMode", "Instantiated", 0>>
    /\ c[4] = <<"exitInitializationMode", "InitializationMode", 0>>
    /\ \A i \in 5..Len(c) : c[i][1] \notin InitCalls
    /\ \A i \in CallsOf(c, "doStep") : c[i][2] \in {"Initialized", "Stepping"}

\* C2: two consecutive executions with the restart setting true, the same
\* settings and the same input both start from initial_time on a slave reset
\* and initialized anew, and end with the same time column, the same output
\* trajectory and the same status, whatever was executed before.
C2_RestartDeterministic ==
    [][(/\ IsExecute
        /\ last.used["restart"]
        /\ last'.op = "execute"
        /\ last'.used = last.used
        /\ last'.input = last.input)
       => (/\ ResetFirst(calls')
           /\ time' = time
           /\ local_data' = local_data
           /\ last'.status = last.status
           /\ current_time' = current_time
           /\ model' = model)]_vars

C2_Witness ==
    /\ IsExecute
    /\ last.repeat
    /\ last.used["restart"]
    /\ last.status = "ok"
    /\ last.pre_cur > initial_time
    /\ Len(local_data) >= 2
    /\ local_data[Len(local_data)] > 0

\* C3: an execution uses the settings given at construction unless
\* set_next_execution was called since the execution before it.
C3_OneShot ==
    (IsExecute /\ ~last.after_set) => last.used = default_simulation_settings

\* The time step given at construction.
DefaultTimeStep == default_simulation_settings["time_step"]

\* The first part of C4: the n-th of the executions that follow construction,
\* step by step and without restart, emits one row at initial_time + n * time_step
\* whenever that time is not after final_time.
C4_NthRow ==
    (/\ IsExecute
     /\ do_step
     /\ ~default_simulation_settings["restart"]
     /\ last.n >= 1
     /\ last.n <= MaxExec
     /\ initial_time + last.n * DefaultTimeStep <= final_time)
    => (/\ last.status = "ok"
        /\ time = <<initial_time + last.n * DefaultTimeStep>>
        /\ Len(local_data) = 1
        /\ current_time = initial_time + last.n * DefaultTimeStep)

C5_StepOnlyWhenInitialized ==
    \A i \in CallsOf(calls, "doStep") : calls[i][2] \in {"Initialized", "Stepping"}

\* The slave is neither reset nor initialized by the calls c.
NoReset(c) == \A i \in 1..Len(c) : c[i][1] \notin InitCalls

C7_RestartNeverAtFinalTime ==
    (IsExecute /\ last.used["restart"]) => last.status # "AlreadyAtFinalTime"

C7_Witness ==
    /\ IsExecute
    /\ last.used["restart"]
    /\ final_time > initial_time
    /\ last.pre_cur = final_time
    /\ last.status = "ok"
    /\ calls[1] = <<"reset", "Stepping", 0>>

\* C8: the current time lies between the initial time and the final time.
C8_TimeBounds ==
    initial_time <= current_time /\ current_time <= final_time

\* The time an execution starts from.
StartTime ==
    IF last.used["restart"] \/ last.pre_cur = initial_time
    THEN initial_time ELSE last.pre_cur

\* C9: an execution to final time that starts from t with the simulation time
\* d ends with the current time min(t + d, final_time), and never fails with
\* CurrentExceedsFinal, a simulation time beyond final_time included.
C9_ClampedAdvance ==
    (IsExecute /\ ~do_step)
    => (/\ last.status # "CurrentExceedsFinal"
        /\ (last.status = "ok"
            => current_time = Min(StartTime + last.used["simulation_time"], final_time))
        /\ (CanStep(model) /\ ~AtFinalTime([initial_time |-> initial_time,
                                            final_time |-> final_time,
                                            current_time |-> StartTime])
            => last.status = "ok"))

C9_Witness ==
    /\ IsExecute
    /\ ~do_step
    /\ last.status = "ok"
    /\ StartTime > initial_time
    /\ StartTime + last.used["simulation_time"] > final_time
    /\ current_time = final_time
    /\ Len(time) >= 2

\* What an execution gives to its caller.
Result(s) == <<s.status, s.time, s.local_data>>

\* C10: the discipline restored from a pickle of the discipline gives, for
\* every input of the next execution, what the discipline itself gives.
C10_PickleRoundTrip ==
    alive =>
      \A input \in InputValues :
        \A o1 \in Outcomes(Self), o2 \in Outcomes(setstate(Self)) :
            Result(execute(setstate(Self), input, o2)) = Result(execute(Self, input, o1))

\* ------------------------------------------------ the time-stepping system
\* The final times and the time steps of the systems explored.
SystemFinalTimes == 1..MaxTime
SystemTimeSteps == 1..MaxStep
\* The time steps of their own the FMU disciplines are built with.
OwnTimeSteps == {0, 1, MaxStep}
\* The values of x2 a system is executed with.
SystemInputValues == {2}

\* The time manager.
TimeManager(initial, final, step) ==
    [initial |-> initial, final |-> final, current |-> initial, step |-> step]

remaining(tm) == tm.final - tm.current

\* The size of the next step of the time manager.
next_step(tm) == Min(tm.step, remaining(tm))

reset_time_manager(tm) == [tm EXCEPT !.current = tm.initial]

\* update_current_time, once there is time left: the current time is advanced
\* by the step, up to the final time.
update_current_time(tm) == [tm EXCEPT !.current = Min(tm.current + tm.step, tm.final)]

\* The start time of the FMU models.
StartTime0 == 0

\* DoStepFMUDiscipline(file_path, time_step=time_step, final_time=final),
\* final = {} standing for None: the final time is then the initial time.
\* outcome is what the slave answers to the steps of the running execution
\* of the system: "ok", or "error" when it rejects them.
DoStepFMUDiscipline(time_step, final) ==
    LET final_time0 == IF final = {} THEN StartTime0 ELSE CHOOSE v \in final : TRUE
    IN [initial_time |-> StartTime0, final_time |-> final_time0, do_step |-> TRUE,
        default_simulation_settings |->
            set_time(StartTime0, final_time0, time_step, TRUE, FALSE),
        simulation_settings |-> NoSettings,
        current_time |-> StartTime0, executed |-> FALSE, time |-> <<>>,
        local_data |-> <<>>, model |-> instantiate_fmu,
        delete_model_instance_directory |-> TRUE,
        names_to_time_functions |-> <<>>, local_input |-> <<>>,
        calls |-> <<>>, status |-> "ok", outcome |-> "ok"]

\* set_default_execution leaving the restart setting of the discipline.
set_default_execution_but_restart(self, final, restart, dostep, time_step) ==
    LET s0 == self.default_simulation_settings
        s1 == ("restart" :> TRUE) @@ s0
        s2 == IF time_step # {}
              THEN ("time_step" :> (CHOOSE v \in time_step : TRUE)) @@ s1
              ELSE s1
    IN [self EXCEPT !.final_time = final, !.do_step = dostep,
                    !.default_simulation_settings = s2]

\* set_default_execution(final_time, restart, do_step, time_step); time_step
\* is {} for None.
set_default_execution(self, final, restart, dostep, time_step) ==
    LET s0 == self.default_simulation_settings
        s1 == ("restart" :> restart) @@ s0
        s2 == IF time_step # {}
              THEN ("time_step" :> (CHOOSE v \in time_step : TRUE)) @@ s1
              ELSE s1
    IN [self EXCEPT !.final_time = final, !.do_step = dostep,
                    !.default_simulation_settings = s2]

\* The offset of the static discipline.
Offset == 1

\* The static discipline LinearCombination(["x2"], "x2_plus_one", offset=1).
LinearCombination(x2) == x2 + Offset

\* The default input data of the system at construction: the start values of
\* the inputs of the FMU models.
StartInputData == [x1 |-> StartInput, x2 |-> StartInput]

\* No data.
NoData == <<>>

\* The MDA chain executing the disciplines one after the other whatever the
\* inner MDA: the second FMU discipline uses the x1 the first one has just
\* computed.
MDAChain_execute_sequential(ds, input_data, mda_name) ==
    CHOOSE r \in UNION {
        LET x1 == IF a.status # "ok"
                  THEN input_data.x1 ELSE a.local_data[1]
        IN {LET status == IF a.status # "ok" THEN a.status ELSE b.status
            IN [ds |-> <<a, b>>,
                status |-> status,
                used |-> <<input_data.x2, x1,
                           IF status = "ok" THEN b.local_data[1] ELSE input_data.x2>>,
                data |-> IF status = "ok"
                         THEN [x1 |-> a.local_data[1], x2 |-> b.local_data[1],
                               x2_plus_one |-> LinearCombination(b.local_data[1]),
                               time1 |-> a.time[1], time2 |-> b.time[1]]
                         ELSE NoData] :
            b \in {IF a.status = "ok"
                   THEN execute([ds[2] EXCEPT !.status = "ok"], x1, ds[2].outcome)
                   ELSE ds[2]}} :
        a \in {execute([ds[1] EXCEPT !.status = "ok"], input_data.x2, ds[1].outcome)}} : TRUE

\* One execution of the MDA chain with max_mda_iter = 0. The first FMU
\* discipline computes x1 from x2 and the second one x2 from x1: they are
\* coupled and make up the inner MDA; the static discipline, which only uses
\* x2, is executed after it. With MDAJacobi, both FMU disciplines use the
\* input data; with MDAGaussSeidel, the second one uses the x1 the first one
\* has just computed. used tells the value each of the three used.
MDAChain_execute(ds, input_data, mda_name) ==
    CHOOSE r \in UNION {
        LET x1 == IF mda_name = "MDAJacobi" \/ a.status # "ok"
                  THEN input_data.x1 ELSE a.local_data[1]
        IN {LET status == IF a.status # "ok" THEN a.status ELSE b.status
            IN [ds |-> <<a, b>>,
                status |-> status,
                used |-> <<input_data.x2, x1,
                           IF status = "ok" THEN b.local_data[1] ELSE input_data.x2>>,
                data |-> IF status = "ok"
                         THEN [x1 |-> a.local_data[1], x2 |-> b.local_data[1],
                               x2_plus_one |-> LinearCombination(b.local_data[1]),
                               time1 |-> a.time[1], time2 |-> b.time[1]]
                         ELSE NoData] :
            b \in {IF a.status = "ok"
                   THEN execute([ds[2] EXCEPT !.status = "ok"], x1, ds[2].outcome)
                   ELSE ds[2]}} :
        a \in {execute([ds[1] EXCEPT !.status = "ok"], input_data.x2, ds[1].outcome)}} : TRUE

\* self.__mda.execute(input_data): Discipline.execute of the MDA chain, whose
\* cache holds the input and output data of its last execution that ended
\* well. When the input data are the cached ones, the disciplines are not
\* executed and the output data are the cached ones.
mda_execute(cached, ds, input_data, mda_name) ==
    LET inputs == [x1 |-> input_data.x1, x2 |-> input_data.x2]
    IN IF cached # <<>> /\ cached[1].input = inputs
       THEN [ds |-> ds, status |-> "ok", used |-> <<>>, data |-> cached[1].output,
             cache |-> cached, hit |-> TRUE]
       ELSE CHOOSE r \in
              {[ds |-> m.ds, status |-> m.status, used |-> m.used, data |-> m.data,
                cache |-> IF m.status = "ok"
                          THEN <<[input |-> inputs, output |-> m.data]>>
                          ELSE cached,
                hit |-> FALSE] :
               m \in {MDAChain_execute(ds, input_data, mda_name)}} : TRUE

\* The system as one record, with the outcome of the running operation: its
\* status, whether _run was called, and one entry of log per macro time step.
SystemSelf ==
    [system |-> system, time_manager |-> time_manager,
     fmu_disciplines |-> <<[fmu_disciplines[1] EXCEPT !.calls = <<>>],
                           [fmu_disciplines[2] EXCEPT !.calls = <<>>]>>,
     mda_data |-> mda_data, io_data |-> io_data, cache |-> cache,
     mda_cache |-> mda_cache,
     status |-> "ok", ran |-> FALSE, log |-> <<>>]

\* __simulate_one_time_step with a time manager that does not refuse to go
\* beyond the final time.
simulate_one_time_step_unchecked(sys, input_data) ==
         LET simulation_time == next_step(sys.time_manager)
             tm == update_current_time(sys.time_manager)
         IN CHOOSE s1 \in UNION {
              {[sys EXCEPT !.time_manager = tm,
                           !.fmu_disciplines = r.ds,
                           !.mda_data = IF r.status = "ok" THEN r.data ELSE @,
                           !.mda_cache = r.cache,
                           !.status = r.status,
                           !.log = Append(@, [step |-> simulation_time,
                                              before |-> sys.time_manager.current,
                                              after |-> tm.current,
                                              restart |-> <<ds[1].simulation_settings["restart"],
                                                            ds[2].simulation_settings["restart"]>>,
                                              input |-> [x1 |-> input_data.x1,
                                                         x2 |-> input_data.x2],
                                              used |-> r.used,
                                              data |-> r.data,
                                              times |-> <<r.ds[1].current_time,
                                                          r.ds[2].current_time>>,
                                              status |-> r.status,
                                              hit |-> r.hit])] :
               r \in {mda_execute(sys.mda_cache, ds, input_data, sys.system.mda_name)}} :
              ds \in {<<set_next_execution(sys.fmu_disciplines[1], {}, {simulation_time}, {}),
                        set_next_execution(sys.fmu_disciplines[2], {}, {simulation_time}, {})>>}} :
              TRUE

\* __simulate_one_time_step; update_current_time of the time manager raises
\* an error when no time is left.
simulate_one_time_step(sys, input_data) ==
    IF remaining(sys.time_manager) <= 0
    THEN [sys EXCEPT !.status = "NoRemaining"]
    ELSE LET simulation_time == next_step(sys.time_manager)
             tm == update_current_time(sys.time_manager)
         IN CHOOSE s1 \in UNION {
              {[sys EXCEPT !.time_manager = tm,
                           !.fmu_disciplines = r.ds,
                           !.mda_data = IF r.status = "ok" THEN r.data ELSE @,
                           !.mda_cache = r.cache,
                           !.status = r.status,
                           !.log = Append(@, [step |-> simulation_time,
                                              before |-> sys.time_manager.current,
                                              after |-> tm.current,
                                              restart |-> <<ds[1].simulation_settings["restart"],
                                                            ds[2].simulation_settings["restart"]>>,
                                              input |-> [x1 |-> input_data.x1,
                                                         x2 |-> input_data.x2],
                                              used |-> r.used,
                                              data |-> r.data,
                                              times |-> <<r.ds[1].current_time,
                                                          r.ds[2].current_time>>,
                                              status |-> r.status,
                                              hit |-> r.hit])] :
               r \in {mda_execute(sys.mda_cache, ds, input_data, sys.system.mda_name)}} :
              ds \in {<<set_next_execution(sys.fmu_disciplines[1], {}, {simulation_time}, {}),
                        set_next_execution(sys.fmu_disciplines[2], {}, {simulation_time}, {})>>}} :
              TRUE

\* The concatenation that leaves the first time step out.
concatenate_but_first(local_data_history) ==
    [x1 |-> [k \in 1..(Len(local_data_history) - 1) |-> local_data_history[k + 1].x1],
     x2 |-> [k \in 1..(Len(local_data_history) - 1) |-> local_data_history[k + 1].x2],
     x2_plus_one |-> [k \in 1..(Len(local_data_history) - 1) |->
                        local_data_history[k + 1].x2_plus_one],
     time1 |-> [k \in 1..(Len(local_data_history) - 1) |-> local_data_history[k + 1].time1],
     time2 |-> [k \in 1..(Len(local_data_history) - 1) |-> local_data_history[k + 1].time2]]

\* numpy.concatenate over the history, name by name.
concatenate(local_data_history) ==
    [x1 |-> [k \in 1..Len(local_data_history) |-> local_data_history[k].x1],
     x2 |-> [k \in 1..Len(local_data_history) |-> local_data_history[k].x2],
     x2_plus_one |-> [k \in 1..Len(local_data_history) |-> local_data_history[k].x2_plus_one],
     time1 |-> [k \in 1..Len(local_data_history) |-> local_data_history[k].time1],
     time2 |-> [k \in 1..Len(local_data_history) |-> local_data_history[k].time2]]

\* __simulate_to_final_time
RECURSIVE simulate_to_final_time(_, _, _)
simulate_to_final_time(sys, input_data, local_data_history) ==
    IF remaining(sys.time_manager) > 0
    THEN CHOOSE s2 \in
           {IF s1.status # "ok"
            THEN s1
            ELSE simulate_to_final_time(s1, s1.mda_data,
                                        Append(local_data_history, s1.mda_data)) :
            s1 \in {simulate_one_time_step(sys, input_data)}} : TRUE
    ELSE IF local_data_history = <<>>
         THEN [sys EXCEPT !.status = "IndexError"]
         ELSE [sys EXCEPT !.io_data = concatenate(local_data_history)]

\* TimeSteppingSystem._run, called by Discipline.execute with io.data holding
\* the input data only.
system_run(sys, input_data) ==
    LET s0 == [sys EXCEPT !.ran = TRUE,
                          !.io_data = [x1 |-> <<input_data.x1>>, x2 |-> <<input_data.x2>>,
                                       x2_plus_one |-> <<>>, time1 |-> <<>>,
                                       time2 |-> <<>>]]
    IN IF s0.system.do_step
       THEN CHOOSE s2 \in
              {IF s1.status # "ok"
               THEN s1
               ELSE [s1 EXCEPT !.io_data = concatenate(<<s1.mda_data>>)] :
               s1 \in {simulate_one_time_step(s0, input_data)}} : TRUE
       ELSE simulate_to_final_time(s0, input_data, <<>>)

\* Discipline.execute: the output data come from the cache when the input
\* data are the cached ones, from _run otherwise.
Discipline_execute(sys, input_data) ==
    IF sys.cache # <<>> /\ sys.cache[1].input = input_data
    THEN [sys EXCEPT !.io_data = sys.cache[1].output]
    ELSE CHOOSE s2 \in
           {IF s1.status = "ok" /\ s1.system.use_cache
            THEN [s1 EXCEPT !.cache = <<[input |-> input_data, output |-> s1.io_data]>>]
            ELSE s1 :
            s1 \in {system_run(sys, input_data)}} : TRUE

\* The input data of io.data, empty before the first execution.
get_input_data(sys) ==
    IF sys.io_data = NoData THEN {} ELSE {[x1 |-> sys.io_data.x1[1], x2 |-> sys.io_data.x2[1]]}

\* TimeSteppingSystem.execute; input is {} when no input data is passed, {v}
\* when x2 is passed with the value v.
system_execute(sys, input) ==
    LET s1 == IF sys.system.restart
              THEN [sys EXCEPT
                      !.time_manager = reset_time_manager(@),
                      !.fmu_disciplines =
                          <<set_next_execution(@[1], {TRUE}, {}, {}),
                            set_next_execution(@[2], {TRUE}, {}, {})>>,
                      !.cache = <<>>,
                      !.mda_cache = IF sys.system.use_cache THEN <<>> ELSE @]
              ELSE sys
        \* input_data.update(original_input_data) changes default_input_data
        \* itself when get_input_data() is empty.
        previous == get_input_data(s1)
        base == IF s1.system.do_step /\ previous # {}
                THEN CHOOSE d \in previous : TRUE
                ELSE s1.system.default_input_data
        input_data == IF input = {} THEN base
                      ELSE [base EXCEPT !.x2 = CHOOSE v \in input : TRUE]
        s2 == IF s1.system.do_step /\ previous = {}
              THEN [s1 EXCEPT !.system.default_input_data = input_data]
              ELSE s1
    IN Discipline_execute(s2, input_data)

\* No discipline is used alone: the disciplines are those of the system.
NoDiscipline ==
    /\ initial_time = 0
    /\ final_time = 0
    /\ do_step = FALSE
    /\ default_simulation_settings = NoSettings
    /\ simulation_settings = NoSettings
    /\ current_time = 0
    /\ executed = FALSE
    /\ time = <<>>
    /\ local_data = <<>>
    /\ model = <<>>
    /\ alive = FALSE
    /\ model_type = ""
    /\ delete_model_instance_directory = FALSE
    /\ log = {}
    /\ calls = <<>>
    /\ last = <<>>

\* The record of an operation of the system other than execute.
SystemOther(op) ==
    [op |-> op, status |-> "ok", ran |-> FALSE, log |-> <<>>, input |-> {},
     before |-> <<>>, n |-> 0]

\* TimeSteppingSystem.__init__ for two FMU disciplines, given either as
\* DoStepFMUDiscipline objects with time steps of their own or as FMU files,
\* and a static discipline.
SystemInit ==
    \E final \in SystemFinalTimes, time_step \in SystemTimeSteps,
       apply_time_step_to_disciplines \in BOOLEAN, restart \in BOOLEAN,
       dostep \in BOOLEAN, mda_name \in {"MDAJacobi", "MDAGaussSeidel"},
       files \in BOOLEAN, own1 \in OwnTimeSteps, own2 \in OwnTimeSteps :
        LET discipline_time_step == IF apply_time_step_to_disciplines THEN time_step ELSE 0
            new(own) ==
                IF files
                THEN DoStepFMUDiscipline(discipline_time_step, {final})
                ELSE set_default_execution(
                         DoStepFMUDiscipline(own, {}), final, FALSE, TRUE,
                         IF discipline_time_step # 0 THEN {discipline_time_step} ELSE {})
        IN /\ system = [final_time |-> final, time_step |-> time_step,
                        apply_time_step_to_disciplines |-> apply_time_step_to_disciplines,
                        restart |-> restart, do_step |-> dostep, mda_name |-> mda_name,
                        use_cache |-> TRUE, default_input_data |-> StartInputData]
           /\ time_manager = TimeManager(0, final, time_step)
           /\ fmu_disciplines = <<new(own1), new(own2)>>
           /\ mda_data = NoData
           /\ mda_cache = <<>>
           /\ NoDuration
           /\ io_data = NoData
           /\ cache = <<>>
           /\ sys_last = SystemOther("init")
           /\ NoDiscipline

\* The longest run of executions of a system that is explored.
MaxSystemExec == 3

\* execute(input_data)
SystemExecute ==
    /\ sys_last.n < MaxSystemExec
    /\ \E input \in {{}} \cup {{v} : v \in SystemInputValues} :
          \E s \in {system_execute(SystemSelf, input)} :
             /\ system' = s.system
             /\ time_manager' = s.time_manager
             /\ fmu_disciplines' = s.fmu_disciplines
             /\ mda_data' = s.mda_data
             /\ mda_cache' = s.mda_cache
             /\ io_data' = s.io_data
             /\ cache' = s.cache
             /\ sys_last' = [op |-> "execute", status |-> s.status, ran |-> s.ran,
                             log |-> s.log, input |-> input,
                             before |-> [time_manager |-> time_manager,
                                         fmu_disciplines |-> fmu_disciplines,
                                         io_data |-> io_data],
                             n |-> sys_last.n + 1]
    /\ UNCHANGED <<vars, util_vars>>

\* set_cache(CacheType.NONE), once the system is built
SetCache ==
    /\ sys_last.op = "init"
    /\ system.use_cache
    /\ system' = [system EXCEPT !.use_cache = FALSE]
    /\ cache' = <<>>
    /\ sys_last' = SystemOther("set_cache")
    /\ UNCHANGED <<time_manager, fmu_disciplines, mda_data, io_data, mda_cache>>
    /\ UNCHANGED <<vars, util_vars>>

SystemNext == SystemExecute \/ SetCache

SystemSpec == SystemInit /\ [][SystemNext]_all_vars

\* What a slave may answer to a step.
SlaveAnswers == {"ok", "error"}

\* execute(input_data), the slaves accepting or rejecting the steps they are
\* asked for.
SystemExecuteWithSlaveErrors ==
    /\ sys_last.n < MaxSystemExec
    /\ \E input \in {{}} \cup {{v} : v \in SystemInputValues},
          outcome1 \in SlaveAnswers, outcome2 \in SlaveAnswers :
          \E s \in {system_execute(
                       [SystemSelf EXCEPT !.fmu_disciplines[1].outcome = outcome1,
                                          !.fmu_disciplines[2].outcome = outcome2],
                       input)} :
             /\ system' = s.system
             /\ time_manager' = s.time_manager
             /\ fmu_disciplines' = [i \in 1..2 |->
                                      [s.fmu_disciplines[i] EXCEPT !.outcome = "ok"]]
             /\ mda_data' = s.mda_data
             /\ mda_cache' = s.mda_cache
             /\ io_data' = s.io_data
             /\ cache' = s.cache
             /\ sys_last' = [op |-> "execute", status |-> s.status, ran |-> s.ran,
                             log |-> s.log, input |-> input,
                             before |-> [time_manager |-> time_manager,
                                         fmu_disciplines |-> fmu_disciplines,
                                         io_data |-> io_data],
                             n |-> sys_last.n + 1]
    /\ UNCHANGED <<vars, util_vars>>

\* A system of which the slaves may fail.
SlaveErrorsSpec == SystemInit /\ [][SystemExecuteWithSlaveErrors]_all_vars

\* --------------------------------------------------- the claims, continued
IsSystemExecute == sys_last.op = "execute"

\* The slave calls c start with the reset and the initialization of the slave.
StartsWithReset(c) ==
    /\ Len(c) >= 4
    /\ c[1][1] = "reset"
    /\ c[2][1] = "setupExperiment"
    /\ c[2][3] = StartTime0
    /\ c[3][1] = "enterInitializationMode"
    /\ c[4][1] = "exitInitializationMode"

\* The FMU disciplines use the time step of the system, and the final time
\* is a multiple of it.
RegularSystem ==
    /\ system.apply_time_step_to_disciplines
    /\ system.final_time % system.time_step = 0

\* C11: every execution to final time of a system with restart true, of which
\* the final time is a multiple of the time step its FMU disciplines use,
\* starts with the time manager at its initial time and with every FMU slave
\* reset and initialized anew, and ends without error after final_time /
\* time_step macro time steps.
C11_SystemRestart ==
    (/\ IsSystemExecute
     /\ system.restart
     /\ ~system.do_step
     /\ RegularSystem
     /\ sys_last.ran)
    => (/\ Len(sys_last.log) = system.final_time \div system.time_step
        /\ sys_last.log[1].before = time_manager.initial
        /\ sys_last.status = "ok"
        /\ \A i \in 1..2 : StartsWithReset(fmu_disciplines[i].calls))

\* The second execution of such a system in the default case: the FMU
\* disciplines use the time step of the system, of which the final time is a
\* multiple.
C11_SecondExecution ==
    /\ IsSystemExecute
    /\ system.restart
    /\ ~system.do_step
    /\ system.apply_time_step_to_disciplines
    /\ system.final_time = 2
    /\ system.time_step = 1
    /\ system.mda_name = "MDAJacobi"
    /\ sys_last.n = 2
    /\ sys_last.before.time_manager.current = system.final_time
    /\ sys_last.status = "AlreadyAtFinalTime"

\* The final time of the system is a multiple of its time step.
WholeSteps == system.final_time % system.time_step = 0

\* C12: after every macro time step of a system, the current time of every
\* FMU discipline is the current time of the time manager, whether the FMU
\* disciplines use the time step of the system or keep their own ones; here
\* for a system with restart false whose final time is a multiple of its
\* time step.
C12_SameCurrentTime ==
    (IsSystemExecute /\ ~system.restart /\ WholeSteps)
    => \A k \in 1..Len(sys_last.log) :
          sys_last.log[k].status = "ok"
          => sys_last.log[k].times = <<sys_last.log[k].after, sys_last.log[k].after>>

\* The same when the FMU disciplines use the time step of the system.
C12_WithSystemTimeStep ==
    (IsSystemExecute /\ ~system.restart /\ RegularSystem)
    => \A k \in 1..Len(sys_last.log) :
          sys_last.log[k].status = "ok"
          => sys_last.log[k].times = <<sys_last.log[k].after, sys_last.log[k].after>>

\* C13: in the first execution of a system whose FMU disciplines use the time
\* step of the system, every macro time step has the size min(time_step,
\* final_time - current time), every FMU discipline advances by that size,
\* and no step fails, the last, shorter one included.
C13_LastStepShorter ==
    (/\ IsSystemExecute
     /\ system.apply_time_step_to_disciplines
     /\ sys_last.n = 1)
    => \A k \in 1..Len(sys_last.log) :
          LET step == sys_last.log[k] IN
          /\ step.step = Min(system.time_step, system.final_time - step.before)
          /\ step.after = step.before + step.step
          /\ step.status = "ok"
          /\ step.times = <<step.after, step.after>>

\* The time column t is non-decreasing and lies between initial and final.
GoodTimeColumn(t, initial, final) ==
    /\ \A i \in 1..Len(t) : initial <= t[i] /\ t[i] <= final
    /\ \A i \in 1..(Len(t) - 1) : t[i] <= t[i + 1]

\* C14, for a discipline: the time column of a completed execution is
\* non-decreasing and lies between the initial time and the final time.
C14_DisciplineTimeColumn ==
    (IsExecute /\ last.status = "ok")
    => GoodTimeColumn(time, initial_time, final_time)

\* C14, for a system: the time columns of a completed execution are
\* non-decreasing and lie between the initial time and the final time.
C14_SystemTimeColumns ==
    (IsSystemExecute /\ sys_last.status = "ok")
    => /\ GoodTimeColumn(io_data.time1, time_manager.initial, time_manager.final)
       /\ GoodTimeColumn(io_data.time2, time_manager.initial, time_manager.final)

\* C15: after a completed execution to final time of a system, every output
\* trajectory and every time column has one sample per macro time step, and
\* its k-th sample is the value read from the disciplines after the k-th
\* macro time step.
C15_OneSamplePerMacroStep ==
    (IsSystemExecute /\ ~system.do_step /\ sys_last.ran /\ sys_last.status = "ok")
    => /\ Len(sys_last.log) >= 1
       /\ Len(io_data.x1) = Len(sys_last.log)
       /\ Len(io_data.x2) = Len(sys_last.log)
       /\ Len(io_data.x2_plus_one) = Len(sys_last.log)
       /\ Len(io_data.time1) = Len(sys_last.log)
       /\ Len(io_data.time2) = Len(sys_last.log)
       /\ \A k \in 1..Len(sys_last.log) :
             /\ sys_last.log[k].status = "ok"
             /\ io_data.x1[k] = sys_last.log[k].data.x1
             /\ io_data.x2[k] = sys_last.log[k].data.x2
             /\ io_data.x2_plus_one[k] = sys_last.log[k].data.x2_plus_one
             /\ io_data.time1[k] = sys_last.log[k].data.time1
             /\ io_data.time2[k] = sys_last.log[k].data.time2
       /\ fmu_disciplines[1].local_data = <<io_data.x1[Len(io_data.x1)]>>
       /\ fmu_disciplines[2].local_data = <<io_data.x2[Len(io_data.x2)]>>

\* C15, for the time columns of the first execution to final time of a system
\* whose FMU disciplines use its time step: the k-th sample is the time read
\* after the k-th macro time step, which is the time the time manager has
\* reached.
C15_TimeSamples ==
    (/\ IsSystemExecute /\ ~system.do_step /\ sys_last.ran /\ sys_last.status = "ok"
     /\ RegularSystem /\ sys_last.n = 1)
    => \A k \in 1..Len(sys_last.log) :
          /\ io_data.time1[k] = sys_last.log[k].after
          /\ io_data.time2[k] = sys_last.log[k].after

C15_Witness ==
    /\ IsSystemExecute
    /\ ~system.do_step
    /\ sys_last.ran
    /\ sys_last.status = "ok"
    /\ Len(sys_last.log) = 3
    /\ Len(io_data.x1) = 3
    /\ io_data.time1 = <<1, 2, 3>>
    /\ io_data.x1[1] < io_data.x1[2]
    /\ io_data.x1[2] < io_data.x1[3]

\* The time manager and the FMU disciplines are as they were before the last
\* execution, which called no slave.
SystemUntouched ==
    /\ time_manager = sys_last.before.time_manager
    /\ \A i \in 1..2 :
          /\ fmu_disciplines[i].calls = <<>>
          /\ fmu_disciplines[i].current_time
                = sys_last.before.fmu_disciplines[i].current_time
          /\ fmu_disciplines[i].model = sys_last.before.fmu_disciplines[i].model
          /\ fmu_disciplines[i].time = sys_last.before.fmu_disciplines[i].time
          /\ fmu_disciplines[i].local_data
                = sys_last.before.fmu_disciplines[i].local_data

C17_AlreadyAtFinalTime ==
    (/\ IsSystemExecute
     /\ ~system.do_step
     /\ ~system.restart
     /\ sys_last.ran
     /\ remaining(sys_last.before.time_manager) = 0)
    => (/\ sys_last.status = "AlreadyAtFinalTime"
        /\ SystemUntouched
        /\ io_data = sys_last.before.io_data)

\* C18: when an FMU discipline fails during a macro time step, the current
\* time of the time manager is still the time before that step.
C18_AdvanceAfterStep ==
    (/\ IsSystemExecute
     /\ sys_last.log # <<>>
     /\ sys_last.log[Len(sys_last.log)].status # "ok")
    => time_manager.current = sys_last.log[Len(sys_last.log)].before

\* What the disciplines returned at the macro time step before the k-th one
\* of the last execution, or the input data of the execution when k = 1.
PreviousValues(k) ==
    IF k = 1
    THEN sys_last.log[1].input
    ELSE [x1 |-> sys_last.log[k - 1].data.x1, x2 |-> sys_last.log[k - 1].data.x2]

\* The input data of the last execution are the default ones, but for the x2
\* passed to execute, when it is the first execution, and the x1 of the
\* previous execution when the system is executed step by step.
InputDataAreInitialOrPrevious ==
    /\ sys_last.n = 1
       => sys_last.log[1].input
             = IF sys_last.input = {} THEN StartInputData
               ELSE [StartInputData EXCEPT !.x2 = CHOOSE v \in sys_last.input : TRUE]
    /\ (system.do_step /\ sys_last.n > 1 /\ sys_last.before.io_data # NoData)
       => sys_last.log[1].input.x1 = sys_last.before.io_data.x1[1]

C20_CyclicCoupling ==
    (IsSystemExecute /\ sys_last.n = 1 /\ RegularSystem)
    => sys_last.status = IF system.mda_name = "MDAGaussSeidel"
                         THEN "CyclicCoupling" ELSE "ok"

\* The MDAJacobi half: the first execution of a regular system ends well.
C20_JacobiSucceeds ==
    (IsSystemExecute /\ sys_last.n = 1 /\ RegularSystem
     /\ system.mda_name = "MDAJacobi")
    => sys_last.status = "ok"

\* With MDAGaussSeidel the first execution ends well too, the second FMU
\* discipline using the x1 of the same macro time step.
C20_GaussSeidelSucceeds ==
    /\ IsSystemExecute
    /\ sys_last.n = 1
    /\ system.mda_name = "MDAGaussSeidel"
    /\ sys_last.status = "ok"
    /\ sys_last.log # <<>>
    /\ sys_last.log[1].used[2] = sys_last.log[1].data.x1

\* ------------------------------------------------- the claims on time series
IsSetReal(call) == call[1] = "setReal"

\* The values the last operation has set the input u of the slave to, in the
\* order of the calls.
WrittenValues ==
    LET c == SelectSeq(calls, IsSetReal) IN [i \in 1..Len(c) |-> c[i][3]]

\* The index of the interval [t_i, t_i+1) of the time series ts the time t
\* lies in, the last interval having no end.
IntervalOf(ts, t) ==
    CHOOSE i \in 1..Len(ts.time) :
        /\ ts.time[i] <= t
        /\ i < Len(ts.time) => t < ts.time[i + 1]

\* The value of ts held at t.
HeldValue(ts, t) == ts.observable[IntervalOf(ts, t)]

InRange(t) == t >= last.time_series.time[1]

\* The times the time series is evaluated at by the last execution, which
\* ended well: in do_step mode the arrival time, otherwise the start time and
\* then the time each step arrives at; they are the times of the time column.
\* Only those from the first time of the series on are kept.
EvaluationTimes == SelectSeq(time, InRange)

IsLinearInterpolation(ts, t, v) ==
    LET i == IntervalOf(ts, t)
    IN IF i = Len(ts.time)
       THEN v = ts.observable[i]
       ELSE v * (ts.time[i + 1] - ts.time[i])
               = ts.observable[i] * (ts.time[i + 1] - t)
                 + ts.observable[i + 1] * (t - ts.time[i])

\* C22: the variable u having the causality input, the values an execution
\* sets u to are, one evaluation time after the other, the linear
\* interpolations of the time series at these times; the discipline is one
\* with its initial time before its final time and with a time step.
C22_InputInterpolated ==
    (/\ IsExecute
     /\ last.status = "ok"
     /\ last.causality = "input"
     /\ initial_time < final_time
     /\ last.used["time_step"] > 0)
    => /\ Len(WrittenValues) = Len(EvaluationTimes)
       /\ \A i \in 1..Len(EvaluationTimes) :
             IsLinearInterpolation(last.time_series, EvaluationTimes[i], WrittenValues[i])

\* The values an execution sets u to are the held ones whatever the causality
\* of u.
C22_InputHeld ==
    (/\ IsExecute
     /\ last.status = "ok"
     /\ last.causality = "input")
    => WrittenValues = [i \in 1..Len(EvaluationTimes) |->
                           HeldValue(last.time_series, EvaluationTimes[i])]

ObservableAtGreatestTimeUpTo(ts, t) ==
    LET i == CHOOSE j \in 1..Len(ts.time) :
                 /\ ts.time[j] <= t
                 /\ \A k \in 1..Len(ts.time) : ts.time[k] <= t => ts.time[k] <= ts.time[j]
    IN ts.observable[i]

\* C24: at every time t of the time column of an execution with a time
\* series, compute(t) raises an error when t is before the first time of the
\* series, and otherwise returns the observable at the greatest time of the
\* series that is at most t, the last observable past the last time; the
\* values set on the slave are those returned.
C24_Stairs ==
    (IsExecute /\ last.status = "ok")
    => /\ \A k \in 1..Len(time) :
             compute(last.time_series, time[k])
                = IF time[k] < last.time_series.time[1]
                  THEN {}
                  ELSE {ObservableAtGreatestTimeUpTo(last.time_series, time[k])}
       /\ Len(WrittenValues) = Len(EvaluationTimes)
       /\ \A i \in 1..Len(EvaluationTimes) :
             compute(last.time_series, EvaluationTimes[i]) = {WrittenValues[i]}

\* An execution evaluating the time series before its first time, at one of
\* its times and past its last time.
C24_Witness ==
    /\ IsExecute
    /\ last.status = "ok"
    /\ \E k \in 1..Len(time) : time[k] < last.time_series.time[1]
    /\ \E k \in 1..Len(time) : time[k] = last.time_series.time[2]
    /\ \E k \in 1..Len(time) :
          time[k] > last.time_series.time[Len(last.time_series.time)]
    /\ Len(WrittenValues) = Len(time) - 1

\* ------------------------------------- the claims on the constructor options
\* The functions the last operation has called, in the order of the calls.
CalledFunctions == [i \in 1..Len(calls) |-> calls[i][1]]

C25_WitnessNeverExecuted ==
    /\ last.op = "del"
    /\ ~executed
    /\ ~delete_model_instance_directory
    /\ CalledFunctions = <<"freeInstance">>

\* C28: a discipline built with do_step true drives a co-simulation slave,
\* from its construction on and after every operation; when it is built with
\* do_step true and use_co_simulation false, the construction ends well and
\* logs the warning, and no other construction logs it.
C28_DoStepIsCoSimulation ==
    /\ do_step => model_type = "CoSimulation"
    /\ last.op = "init"
       => /\ alive
          /\ model.state = "Instantiated"
          /\ (CoSimulationRequired \in log) = (do_step /\ ~last.use_co_simulation)
          /\ ~do_step => model_type = IF last.use_co_simulation
                                      THEN "CoSimulation" ELSE "ModelExchange"

\* A discipline built with do_step true and use_co_simulation false, and
\* executed step by step.
C28_Witness ==
    /\ do_step
    /\ CoSimulationRequired \in log
    /\ model_type = "CoSimulation"
    /\ IsExecute
    /\ last.status = "ok"
    /\ model.state = "Stepping"

\* ------------------------------------------ the claims on failing slaves

\* The last execution of the system has ended by a step a slave rejected.
RejectedStep ==
    /\ sys_last.op = "execute"
    /\ sys_last.log # <<>>
    /\ sys_last.log[Len(sys_last.log)].status = "SlaveError"

\* The FMU discipline of which the slave rejected the step.
Rejecting == IF fmu_disciplines[1].status = "SlaveError" THEN 1 ELSE 2

\* C26: when a slave rejects a step, its discipline ends with the error, the
\* rejected doStep being its last call to the slave and the only one of the
\* macro time step (the slaves are asked one step per macro time step that is
\* not answered from the cache of the MDA chain); its current time is the one
\* the step started from; the execution of the system ends with the same
\* error, no macro time step follows and the disciplines after it are not
\* executed. An execution of the system ends with this error in no other
\* case.
C26_RejectedStep ==
    /\ (sys_last.op = "execute" /\ sys_last.status = "SlaveError") => RejectedStep
    /\ RejectedStep
       => LET d == fmu_disciplines[Rejecting]
              n == Cardinality({k \in 1..Len(sys_last.log) : ~sys_last.log[k].hit})
          IN /\ sys_last.status = "SlaveError"
             /\ ~sys_last.log[Len(sys_last.log)].hit
             /\ d.status = "SlaveError"
             /\ d.calls # <<>>
             /\ d.calls[Len(d.calls)][1] = "doStep"
             /\ d.current_time = d.calls[Len(d.calls)][3]
             /\ Cardinality(CallsOf(d.calls, "doStep")) = n
             /\ \A k \in 1..(Len(sys_last.log) - 1) : sys_last.log[k].status = "ok"
             /\ Cardinality(CallsOf(fmu_disciplines[1].calls, "doStep")) = n
             /\ Cardinality(CallsOf(fmu_disciplines[2].calls, "doStep"))
                    = IF Rejecting = 1 THEN n - 1 ELSE n

\* The second slave rejects the first of the steps to the final time, after
\* the first slave has done its one.
C26_Witness ==
    /\ RejectedStep
    /\ Rejecting = 2
    /\ ~system.do_step
    /\ sys_last.log[1].step > 0
    /\ sys_last.log[1].after < time_manager.final
    /\ Cardinality(CallsOf(fmu_disciplines[1].calls, "doStep")) = 1
    /\ fmu_disciplines[1].current_time
           > sys_last.before.fmu_disciplines[1].current_time

\* C26 for a discipline of its own: an execution ending with the error of the
\* slave has asked the rejected step last and has left the current time.
C26_LoneDiscipline ==
    (IsExecute /\ last.status = "SlaveError")
        => /\ calls # <<>>
           /\ calls[Len(calls)][1] = "doStep"
           /\ current_time = calls[Len(calls)][3]

\* C27: after an execution of the system which a slave has made fail, every
\* other slave has been terminated.
C27_OtherSlavesTerminated ==
    RejectedStep
        => \A j \in 1..2 \ {Rejecting} :
              /\ CallsOf(fmu_disciplines[j].calls, "terminate") # {}
              /\ fmu_disciplines[j].model.state = "Terminated"

\* What the system does: the slaves other than the failing one are left as
\* their last step left them, no terminate being called.
C27_OtherSlavesLeft ==
    RejectedStep
        => \A j \in 1..2 :
              /\ CallsOf(fmu_disciplines[j].calls, "terminate") = {}
              /\ fmu_disciplines[j].model.state # "Terminated"

\* ------------------------------------------------------- the time durations
\* A duration is held exactly, as whole seconds s and microseconds us below
\* one second. The numbers of the literals are given in tenths: 706 is 70.6.

\* The microseconds of one second.
Second == 1000000

\* The units and their names as properties of a duration.
Units == {"us", "ms", "s", "m", "h", "d", "w", "M", "y"}

\* The month of 30 days.
Factor_thirty_days(unit) ==
    CASE unit = "us" -> [s |-> 0, us |-> 1]
      [] unit = "ms" -> [s |-> 0, us |-> 1000]
      [] unit = "s" -> [s |-> 1, us |-> 0]
      [] unit = "m" -> [s |-> 60, us |-> 0]
      [] unit = "h" -> [s |-> 3600, us |-> 0]
      [] unit = "d" -> [s |-> 86400, us |-> 0]
      [] unit = "w" -> [s |-> 604800, us |-> 0]
      [] unit = "M" -> [s |-> 2592000, us |-> 0]
      [] unit = "y" -> [s |-> 12 * 2592000, us |-> 0]

\* The duration of one unit.
Factor(unit) ==
    CASE unit = "us" -> [s |-> 0, us |-> 1]
      [] unit = "ms" -> [s |-> 0, us |-> 1000]
      [] unit = "s" -> [s |-> 1, us |-> 0]
      [] unit = "m" -> [s |-> 60, us |-> 0]
      [] unit = "h" -> [s |-> 3600, us |-> 0]
      [] unit = "d" -> [s |-> 86400, us |-> 0]
      [] unit = "w" -> [s |-> 604800, us |-> 0]
      [] unit = "M" -> [s |-> 2629800, us |-> 0]
      [] unit = "y" -> [s |-> 12 * 2629800, us |-> 0]

Seconds(s, us) == [s |-> s + (us \div Second), us |-> us % Second]

\* number x unit factor, the number being given in tenths.
Scale(tenths, unit) ==
    LET f == Factor(unit)
        s10 == tenths * f.s
        us10 == tenths * f.us
    IN Seconds(s10 \div 10, (s10 % 10) * (Second \div 10) + (us10 \div 10))

\* A numeric literal, a textual one and the token of a textual one.
Number(tenths) == [kind |-> "number", number |-> tenths, tokens |-> <<>>]
Text(tokens) == [kind |-> "text", number |-> 0, tokens |-> tokens]
Token(tenths, unit) == [number |-> tenths, unit |-> unit]

IsNumber(literal) == literal.kind = "number"

\* The sum of the tokens of a textual duration.
RECURSIVE SumOfTokens(_)
SumOfTokens(tokens) ==
    IF tokens = <<>>
    THEN Seconds(0, 0)
    ELSE LET head == Scale(tokens[1].number, tokens[1].unit)
             tail == SumOfTokens(Tail(tokens))
         IN Seconds(head.s + tail.s, head.us + tail.us)

\* TimeDuration(value).value: a number is a number of seconds.
TimeDuration(literal) ==
    IF IsNumber(literal)
    THEN Scale(literal.number, "s")
    ELSE SumOfTokens(literal.tokens)

RECURSIVE GCD(_, _)
GCD(a, b) == IF b = 0 THEN a ELSE GCD(b, a % b)

\* The fraction num / den in lowest terms.
Fraction(num, den) ==
    LET g == GCD(num, den) IN [num |-> num \div g, den |-> den \div g]

\* The microseconds, divided by g, of a duration given with its whole seconds
\* and its microseconds.
MicrosecondsBy(g, value) == value.s * (Second \div g) + (value.us \div g)

\* A common divisor of the microseconds of the duration and of the unit.
CommonDivisor(value, unit) == GCD(GCD(value.us, Factor(unit).us), Second)

\* The duration expressed in the unit: its seconds divided by the ones of the
\* unit.
in_unit(value, unit) ==
    LET g == CommonDivisor(value, unit)
    IN Fraction(MicrosecondsBy(g, value), MicrosecondsBy(g, Factor(unit)))

\* The durations whose expression in the unit fits the integers of the model.
Representable(value, unit) ==
    LET k == Second \div CommonDivisor(value, unit)
    IN /\ value.s < 2000000000 \div k
       /\ Factor(unit).s < 2000000000 \div k

\* The comparisons of two durations.
eq(a, b) == a.s = b.s /\ a.us = b.us
lt(a, b) == a.s < b.s \/ (a.s = b.s /\ a.us < b.us)
le(a, b) == lt(a, b) \/ eq(a, b)
gt(a, b) == lt(b, a)
ge(a, b) == le(b, a)

\* The literals of the tests, and some more: as numbers 1, 2, 1.6, 70.6, 4500,
\* 108000, 907200 and 47336400; as texts "70.6s", "1d 23m 2ms", "1y", "12M",
\* "1w", "7d", "1.5h", "1h 30m", "1500ms", "1s 500000us", "1.6s".
DurationLiterals ==
    {Number(10), Number(20), Number(16), Number(706), Number(45000),
     Number(1080000), Number(9072000), Number(473364000),
     Text(<<Token(706, "s")>>),
     Text(<<Token(10, "d"), Token(230, "m"), Token(20, "ms")>>),
     Text(<<Token(10, "y")>>), Text(<<Token(120, "M")>>),
     Text(<<Token(10, "w")>>), Text(<<Token(70, "d")>>),
     Text(<<Token(15, "h")>>), Text(<<Token(10, "h"), Token(300, "m")>>),
     Text(<<Token(15000, "ms")>>), Text(<<Token(10, "s"), Token(5000000, "us")>>),
     Text(<<Token(16, "s")>>)}

\* TimeDuration(value)
NewTimeDuration ==
    /\ \E literal \in DurationLiterals :
          duration' = [op |-> "TimeDuration", literal |-> literal,
                       value |-> TimeDuration(literal)]
    /\ UNCHANGED <<vars, sys_vars>>

\* The property of the duration named after a unit.
ExpressInUnit ==
    /\ duration # <<>>
    /\ \E unit \in Units :
          /\ Representable(duration.value, unit)
          /\ duration' = [op |-> "unit", literal |-> duration.literal,
                          value |-> duration.value, unit |-> unit,
                          converted |-> in_unit(duration.value, unit)]
    /\ UNCHANGED <<vars, sys_vars>>

\* The comparisons of the duration with another one.
Compare ==
    /\ duration # <<>>
    /\ \E literal \in DurationLiterals :
          \E other \in {TimeDuration(literal)} :
             duration' = [op |-> "compare", literal |-> duration.literal,
                          value |-> duration.value,
                          other_literal |-> literal, other |-> other,
                          eq |-> eq(duration.value, other),
                          lt |-> lt(duration.value, other),
                          le |-> le(duration.value, other),
                          gt |-> gt(duration.value, other),
                          ge |-> ge(duration.value, other)]
    /\ UNCHANGED <<vars, sys_vars>>

DurationInit == NoDiscipline /\ NoSystem /\ NoDuration

DurationNext == NewTimeDuration \/ ExpressInUnit \/ Compare

DurationSpec == DurationInit /\ [][DurationNext]_all_vars

\* ------------------------------------------------ the claims on durations

\* The expectations of test_units: the number of seconds, in tenths, the unit
\* and the expected value as a fraction.
TestedUnits ==
    {<<16, "us", 1600000, 1>>, <<16, "ms", 1600, 1>>, <<16, "s", 8, 5>>,
     <<45000, "m", 75, 1>>, <<45000, "h", 5, 4>>, <<1080000, "d", 5, 4>>,
     <<9072000, "w", 3, 2>>, <<473364000, "M", 18, 1>>,
     <<473364000, "y", 3, 2>>}

\* C29: the value of a duration made from a number is this number of seconds
\* and the one of a duration made from a text is the sum of its tokens, as
\* the tests expect (70.6 and "70.6s" are 70.6 s, "1d 23m 2ms" is 87780.002 s)
\* and with a year of 12 months of 2629800 s; a duration expressed in a unit
\* is its seconds divided by the ones of the unit, as the tests expect; two
\* durations compare as their seconds do.
C29_Durations ==
    duration # <<>>
        => /\ IsNumber(duration.literal)
                => duration.value
                       = [s |-> duration.literal.number \div 10,
                          us |-> (duration.literal.number % 10) * 100000]
           /\ duration.literal \in {Number(706), Text(<<Token(706, "s")>>)}
                => duration.value = [s |-> 70, us |-> 600000]
           /\ duration.literal
                  = Text(<<Token(10, "d"), Token(230, "m"), Token(20, "ms")>>)
                => duration.value = [s |-> 87780, us |-> 2000]
           /\ duration.literal \in {Text(<<Token(10, "y")>>), Text(<<Token(120, "M")>>)}
                => duration.value = [s |-> 12 * 2629800, us |-> 0]
           /\ duration.value.s >= 0
           /\ duration.value.us \in 0..999999
           /\ duration.op = "unit"
                => /\ \A t \in TestedUnits :
                        (duration.literal = Number(t[1]) /\ duration.unit = t[2])
                            => duration.converted = [num |-> t[3], den |-> t[4]]
                   /\ duration.unit = "s" /\ duration.value.us = 0
                        => duration.converted = [num |-> duration.value.s, den |-> 1]
                   /\ (/\ duration.value.us = 0
                       /\ duration.value.s <= 108000
                       /\ Factor(duration.unit).s \in 1..3600)
                        => duration.converted.num * Factor(duration.unit).s
                               = duration.converted.den * duration.value.s
           /\ duration.op = "compare"
                => /\ duration.eq = (duration.value = duration.other)
                   /\ duration.lt
                          = (\/ duration.value.s < duration.other.s
                             \/ /\ duration.value.s = duration.other.s
                                /\ duration.value.us < duration.other.us)
                   /\ duration.gt = (~duration.lt /\ ~duration.eq)
                   /\ duration.le = ~duration.gt
                   /\ duration.ge = ~duration.lt
                   /\ (duration.literal = Number(10) /\ duration.other_literal = Number(10))
                        => duration.eq /\ duration.le /\ duration.ge
                   /\ (duration.literal = Number(10) /\ duration.other_literal = Number(20))
                        => duration.lt /\ duration.le
                   /\ (duration.literal = Number(20) /\ duration.other_literal = Number(10))
                        => duration.gt /\ duration.ge

\* 47336400 seconds are expressed in months: 18 of them.
C29_Witness ==
    /\ duration # <<>>
    /\ duration.op = "unit"
    /\ duration.literal = Number(473364000)
    /\ duration.unit = "M"
    /\ duration.converted = [num |-> 18, den |-> 1]

\* "1h 30m" and "1.5h" are found equal.
C29_WitnessEqual ==
    /\ duration # <<>>
    /\ duration.op = "compare"
    /\ duration.literal = Text(<<Token(10, "h"), Token(300, "m")>>)
    /\ duration.other_literal = Text(<<Token(15, "h")>>)
    /\ duration.eq

\* ------------------------------------------- the claims on the MDA cache

\* The macro time steps of the last execution of the system.
MacroSteps == 1..Len(sys_last.log)

\* The doStep calls of the slave i during the last execution of the system.
Advances(i) == Cardinality(CallsOf(fmu_disciplines[i].calls, "doStep"))

\* C30: after an execution that ended well of a system whose FMU disciplines
\* use its time step, each slave has been asked as many steps as there are
\* macro time steps, none being skipped for a hit of a cache.
C30_OneAdvancePerMacroStep ==
    (RegularSystem /\ IsSystemExecute /\ sys_last.status = "ok" /\ sys_last.ran)
        => /\ \A k \in MacroSteps : ~sys_last.log[k].hit
           /\ \A i \in 1..2 : Advances(i) = Len(sys_last.log)

\* What the code ensures: each slave is asked one step per macro time step
\* that does not hit the cache of the MDA chain, and none for the others.
C30_OneAdvancePerMiss ==
    (IsSystemExecute /\ sys_last.status = "ok" /\ sys_last.ran)
        => \A i \in 1..2 :
              Advances(i) = Cardinality({k \in MacroSteps : ~sys_last.log[k].hit})

\* ------------------------------------- the claims on the executions, continued

\* The data d with the x2 passed to the last execution of the system, if any.
WithPassedInput(d) ==
    IF sys_last.input = {} THEN d
    ELSE [d EXCEPT !.x2 = CHOOSE v \in sys_last.input : TRUE]

\* The input values io.data held when the last execution of the system was
\* asked.
InputsBefore ==
    [x1 |-> sys_last.before.io_data.x1[1], x2 |-> sys_last.before.io_data.x2[1]]

\* C31: an execution step by step of a system whose FMU disciplines use its
\* time step uses, for the inputs that are not passed, the default input data
\* of the construction when the system is at its initial time, that is at the
\* first execution and at every execution of a system with restart true, and
\* the input values of the previous execution otherwise; the values passed
\* replace them.
C31_DefaultsAtInitialTime ==
    (IsSystemExecute /\ system.do_step /\ sys_last.log # <<>> /\ RegularSystem)
        => sys_last.log[1].input
              = WithPassedInput(IF sys_last.n = 1 \/ system.restart
                                THEN StartInputData
                                ELSE InputsBefore)

\* What the code does: the default input data are used as long as io.data
\* holds no input value, that is at the first execution only, with restart
\* true also.
C31_DefaultsAtFirstExecution ==
    (IsSystemExecute /\ system.do_step /\ sys_last.log # <<>>)
        => sys_last.log[1].input
              = WithPassedInput(IF sys_last.before.io_data = NoData
                                THEN StartInputData
                                ELSE InputsBefore)

\* The current time of the FMU discipline i when the macro time step k of the
\* last execution of the system starts.
TimeBefore(i, k) ==
    IF k = 1
    THEN sys_last.before.fmu_disciplines[i].current_time
    ELSE sys_last.log[k - 1].times[i]

\* The macro time steps of the last execution of the system that execute the
\* disciplines and at which the FMU discipline i starts from its initial time.
StepsFromInitialTime(i) ==
    {k \in 1..Len(sys_last.log) :
        /\ ~sys_last.log[k].hit
        /\ TimeBefore(i, k) = fmu_disciplines[i].initial_time}

HasReset == CallsOf(calls, "reset") # {}

\* The input of the slave when the last execution starts to simulate: the
\* start value after a reset, the one it had otherwise.
InputBefore == IF HasReset THEN StartInput ELSE last.pre_u

\* C33: an execution evaluating the time series before its first time does
\* not fail for that: it ends well, the slave being written at the other
\* evaluation times only. At a time before the first time of the series, the
\* slave keeps the input it had before: the step from this time is done with
\* this input.
C33_SkippedBeforeFirstTime ==
    IsExecute
        => /\ last.status \in {"ok", "AlreadyAtFinalTime", "CurrentExceedsFinal",
                               "SlaveError"}
           /\ last.status = "ok"
                => /\ Len(WrittenValues) = Len(EvaluationTimes)
                   /\ (\A k \in 1..Len(time) : ~InRange(time[k]))
                        => WrittenValues = <<>> /\ model.u = InputBefore
                   /\ ~do_step
                        => \A k \in 1..(Len(time) - 1) :
                              ~InRange(time[k])
                                => local_data[k + 1]
                                      = local_data[k]
                                        + InputBefore * (time[k + 1] - time[k])

\* A simulation to the final time of which the first time is before the time
\* series and the others are not: the slave is written from the second time
\* on, and the first step is done with another input than the one written
\* then.
C33_Witness ==
    /\ IsExecute
    /\ last.status = "ok"
    /\ ~do_step
    /\ Len(time) >= 3
    /\ ~InRange(time[1])
    /\ InRange(time[2])
    /\ Len(WrittenValues) = Len(time) - 1
    /\ WrittenValues[1] # InputBefore
    /\ local_data[2] = local_data[1] + InputBefore * (time[2] - time[1])

\* C34: after a simulation to the final time that ended well, with a time
\* series that starts at the first time of the time column or before, the
\* trajectory of the input has as many samples as the time column, the k-th
\* one being the k-th value written to the slave, at the k-th time.
C34_SamplesAreWrittenValues ==
    (/\ IsExecute
     /\ last.status = "ok"
     /\ ~do_step
     /\ initial_time < final_time
     /\ last.used["time_step"] > 0
     /\ InRange(time[1]))
        => /\ Len(last.local_input) = Len(time)
           /\ Len(WrittenValues) = Len(time)
           /\ \A k \in 1..Len(time) : last.local_input[k] = WrittenValues[k]

\* What the code does: the first sample is the first observable of the time
\* series, whatever the value written at the first time, and the following
\* ones are the values written at the following times, the times before the
\* time series adding no sample.
C34_FirstSampleIsFirstObservable ==
    (IsExecute /\ last.status = "ok" /\ ~do_step)
        => LET written == SelectSeq(Tail(time), InRange)
           IN last.local_input
                 = <<last.time_series.observable[1]>>
                   \o [k \in 1..Len(written) |->
                          HeldValue(last.time_series, written[k])]

\* ------------------------------------------------------------------------
\* Properties: the claims on the failing executions.

\* C35: once an execution has returned or raised, no setting of
\* set_next_execution is pending: the settings the following execution would
\* use are the ones given at construction.
C35_NoOverridePending ==
    IsExecute => EffectiveSettings = default_simulation_settings

\* What the code does: the settings of set_next_execution are dropped by the
\* executions that return, and kept by the ones that raise.
C35_DroppedOnReturn ==
    IsExecute
        => IF last.status = "ok" THEN simulation_settings = NoSettings
           ELSE simulation_settings = last.used

\* C36: an execution that does one step, of a positive size, and whose arrival
\* time is after the final time fails with the slave not stepped, no input written, the time
\* column as it was, and so the time of the slave still the current time.
C36_FailsBeforeStepping ==
    [][(/\ IsExecute'
        /\ do_step
        /\ initial_time < final_time
        /\ last'.used["time_step"] > 0
        /\ last'.status = "CurrentExceedsFinal")
          => /\ CallsOf(calls', "doStep") = {}
             /\ CallsOf(calls', "setReal") = {}
             /\ time' = time
             /\ model'.t = current_time']_vars

\* What the code does: the inputs are written, the slave is stepped and the
\* time column is set to the arrival time before the setter of the current
\* time refuses it; the slave is then one time step ahead of the discipline.
C36_FailsAfterStepping ==
    (/\ IsExecute
     /\ do_step
     /\ last.status = "CurrentExceedsFinal")
        => /\ CallsOf(calls, "doStep") # {}
           /\ CallsOf(calls, "setReal") # {}
           /\ time = <<current_time + last.used["time_step"]>>
           /\ model.t = current_time + last.used["time_step"]
           /\ current_time + last.used["time_step"] > final_time

\* ------------------------------------------------------------------------
\* The destruction of a discipline whose executions may fail before _run.

\* execute, for an input u given as a function of time that raises when it is
\* evaluated at the current time: execute has set __executed and leaves
\* before _run, so the slave is not called.
execute_raising_time_function(self) ==
    [self EXCEPT !.executed = TRUE, !.status = "InputError"]

\* execute(input_data), with a time function that raises
ExecuteRaisingTimeFunction ==
    /\ alive
    /\ \E s \in {execute_raising_time_function(Self)} :
          /\ Apply(s)
          /\ last' = [Other("execute") EXCEPT
                         !.status = s.status,
                         !.after_set = (last.op # "execute" /\ last.after_set)]
    /\ UNCHANGED alive
    /\ UNCHANGED <<sys_vars, util_vars>>

DestructionNext ==
    Execute \/ ExecuteRaisingTimeFunction \/ SetNextExecution \/ Unpickle \/ Delete

DestructionSpec == OptionsInit /\ [][DestructionNext]_all_vars

\* C37: when a discipline is deleted, terminate is called only on a slave
\* that has been initialized: a discipline that was not executed, or whose
\* executions all failed before the initialization of the slave, frees its
\* slave without terminating it.
C37_TerminateOnlyInitialized ==
    last.op = "del"
        => \A i \in CallsOf(calls, "terminate") : calls[i][2] # "Instantiated"

\* What the code does: terminate is called if and only if execute was
\* called, whatever became of the call.
C37_TerminateIfExecuteCalled ==
    last.op = "del" => (CallsOf(calls, "terminate") # {} <=> executed)

\* A discipline that was not executed frees its slave without terminating it.
C37_NeverExecuted ==
    (last.op = "del" /\ ~executed) => CalledFunctions[1] = "freeInstance"
====
